---- MODULE Spec2Model ----
(***************************************************************************)
(* The program of src/kimi-writer.py (main) with the token estimate of     *)
(* src/utils.py: the startup (credential, arguments, first prompt), then   *)
(* the agent loop over a transcript of role-tagged turns: a per-iteration  *)
(* token check with context compression, the model call with tool          *)
(* dispatch, and the pause for user input.                                 *)
(*                                                                         *)
(* A Python string is a sequence of text atoms; an atom is a literal piece *)
(* of text.  The atom BLOCK stands for a long passage of BlockChars        *)
(* characters, every other atom counts its own characters.                 *)
(***************************************************************************)
EXTENDS Integers, Sequences, FiniteSets, TLC

\* kimi-writer.py:30 sets MAX_ITERATIONS = 300; the model runs the same loop
\* with a small cap.
MAX_ITERATIONS == 3
\* kimi-writer.py:32
COMPRESSION_THRESHOLD == 900000
\* kimi-writer.py:31
TOKEN_LIMIT == 1000000
\* kimi-writer.py:168 passes keep_recent=10; the model keeps a shorter tail.
KEEP_RECENT == 3
\* the number of characters of the long passage BLOCK
BlockChars == 3600000

\* env        the process environment and command line the program is started
\*            with: GEMINI_API_KEY and the parsed arguments
\* contents   the transcript, main's list of types.Content (120-132)
\* iteration  the loop variable of main (143); 1 until the loop is entered
\* pc         where main stands: "start" at the entry of main, "token" before
\*            the token management of an iteration, "generate" before its
\*            model call, "pause" at input(), "done" after the loop or exit
\* exit       how the program ended: "cap", "quit" (break at 279), "error"
\*            (break at 291), "interrupt" (sys.exit at 288), "uncaught
\*            interrupt", and at startup "no key" (112), "load failed" (48),
\*            "goodbye" (96), "empty prompt" (100), "uncaught eof"
\* genCalls   the generate_content calls made so far
\* plain      so far every response was without tool calls, every input a
\*            line that is no quit word, and nothing failed
\* ev         what the last step did and met, with the lines it printed about
\*            the compression, an error or an interrupt
VARIABLES env, contents, iteration, pc, exit, genCalls, plain, ev

vars == <<env, contents, iteration, pc, exit, genCalls, plain, ev>>

----------------------------------------------------------------------------
\* Strings

BLOCK == "<long passage>"

AtomLen(a) == IF a = BLOCK THEN BlockChars ELSE Len(a)

RECURSIVE StrLen(_)
StrLen(s) == IF s = <<>> THEN 0 ELSE AtomLen(Head(s)) + StrLen(Tail(s))

IsSpace(a) == a = " "

RECURSIVE LStrip(_)
LStrip(s) == IF s # <<>> /\ IsSpace(Head(s)) THEN LStrip(Tail(s)) ELSE s

RECURSIVE RStrip(_)
RStrip(s) ==
  IF s # <<>> /\ IsSpace(s[Len(s)]) THEN RStrip(SubSeq(s, 1, Len(s) - 1)) ELSE s

\* str.strip()
Strip(s) == RStrip(LStrip(s))

LowerAtom(a) ==
  CASE a = "Q" -> "q"
    [] a = "Quit" -> "quit"
    [] a = "QUIT" -> "quit"
    [] a = "Exit" -> "exit"
    [] OTHER -> a

\* str.lower()
Lower(s) == [i \in 1..Len(s) |-> LowerAtom(s[i])]

StartsWith(s, p) == Len(s) >= Len(p) /\ SubSeq(s, 1, Len(p)) = p

RECURSIVE Join(_)
\* " ".join(text_parts)
Join(ts) ==
  IF ts = <<>> THEN <<>>
  ELSE IF Len(ts) = 1 THEN ts[1]
  ELSE ts[1] \o <<" ">> \o Join(Tail(ts))

----------------------------------------------------------------------------
\* types.Part and types.Content

NoArgs == <<>>

TextPart(t) ==
  [kind |-> "text", text |-> t, name |-> "", args |-> NoArgs, result |-> <<>>]

FunctionCallPart(n, a) ==
  [kind |-> "function_call", text |-> <<>>, name |-> n, args |-> a, result |-> <<>>]

FunctionResponsePart(n, r) ==
  [kind |-> "function_response", text |-> <<>>, name |-> n, args |-> NoArgs, result |-> r]

Content(r, ps) == [role |-> r, parts |-> ps]

\* response.candidates empty, or a candidate without content
None == [role |-> "None", parts |-> <<>>]

\* hasattr(part, 'text') and part.text
HasText(p) == p.kind = "text" /\ p.text # <<>>

\* hasattr(part, 'function_call') and part.function_call
HasFunctionCall(p) == p.kind = "function_call"

----------------------------------------------------------------------------
\* utils.py

RECURSIVE PartChars(_)
\* the inner loop of the fallback: the characters of the parts that carry text
PartChars(ps) ==
  IF ps = <<>> THEN 0
  ELSE (IF HasText(Head(ps)) THEN StrLen(Head(ps).text) ELSE 0) + PartChars(Tail(ps))

\* a count that does not accumulate over the turns (total_chars reset per content)
TotalCharsLastTurn(cs) ==
  IF cs = <<>> THEN 0 ELSE PartChars(cs[Len(cs)].parts)

RECURSIVE TotalChars(_)
TotalChars(cs) ==
  IF cs = <<>> THEN 0 ELSE PartChars(Head(cs).parts) + TotalChars(Tail(cs))

\* the fallback of estimate_token_count: 4 chars per token
FallbackEstimate(cs) == TotalChars(cs) \div 4

\* what client.models.count_tokens may do: fail, or answer a total
CountFailed == [failed |-> TRUE, total_tokens |-> 0]
CountReply(n) == [failed |-> FALSE, total_tokens |-> n]
CountOutcomes == {CountFailed, CountReply(899999), CountReply(900000), CountReply(950000)}

\* an estimate without the fallback: a failed count yields 0
EstimateNoFallback(cs, reply) ==
  IF reply.failed THEN 0 ELSE reply.total_tokens

\* estimate_token_count(client, model, contents)
estimate_token_count(cs, reply) ==
  IF reply.failed THEN FallbackEstimate(cs) ELSE reply.total_tokens

ToolNames == {"create_project", "write_file", "compress_context"}

\* get_tool_map(): the names that have a handler
tool_map == ToolNames

\* the parameters each handler is declared with (all required)
Params(n) ==
  CASE n = "create_project" -> {"project_name"}
    [] n = "write_file" -> {"filename", "content", "mode"}
    [] OTHER -> {}

\* get_system_prompt()
system_instruction == <<"You are an elite literary AI agent">>

----------------------------------------------------------------------------
\* Token management (kimi-writer.py 147-187)

ShouldCompressStrict(token_count) == token_count > COMPRESSION_THRESHOLD

\* if token_count >= COMPRESSION_THRESHOLD
ShouldCompress(token_count) == token_count >= COMPRESSION_THRESHOLD

Message(r, c) == [role |-> r, content |-> c]

RECURSIVE TextParts(_)
TextParts(ps) ==
  IF ps = <<>> THEN <<>>
  ELSE (IF HasText(Head(ps)) THEN <<Head(ps).text>> ELSE <<>>) \o TextParts(Tail(ps))

RECURSIVE SimpleMessages(_)
\* the role/text view of the transcript handed to the compressor
SimpleMessages(cs) ==
  IF cs = <<>> THEN <<>>
  ELSE LET text_parts == TextParts(Head(cs).parts)
       IN (IF text_parts # <<>>
             THEN <<Message(Head(cs).role, Join(text_parts))>>
             ELSE <<>>) \o SimpleMessages(Tail(cs))

\* messages=[{"role": "system", ...}] + simple_messages
CompressorInput(cs) == <<Message("system", system_instruction)>> \o SimpleMessages(cs)

\* What the summarization request inside the compressor may do.
NoRequest == [kind |-> "no request", text |-> <<>>]
SummaryFailed == [kind |-> "failed", text |-> <<>>]
SummaryMalformed == [kind |-> "malformed", text |-> <<>>]
Summary(t) == [kind |-> "summary", text |-> t]
SummaryOutcomes ==
  {SummaryFailed, SummaryMalformed, Summary(<<"Summary: a story was begun.">>)}

LastN(s, n) == IF Len(s) <= n THEN s ELSE SubSeq(s, Len(s) - n + 1, Len(s))

ButLastN(s, n) == IF Len(s) <= n THEN <<>> ELSE SubSeq(s, 1, Len(s) - n)

\* whether compress_context_impl issues its summarization request
NeedsSummary(messages, keep_recent) == Len(messages) > keep_recent

\* compress_context_impl(messages, client, model, keep_recent): the result
\* dictionary, or an exception.  A short conversation comes back unchanged and
\* no request is made; otherwise the older messages are replaced by one user
\* message holding the summary, and a failed request makes the compression fail.
compress_context_impl(messages, keep_recent, outcome) ==
  IF ~NeedsSummary(messages, keep_recent)
    THEN [raised |-> FALSE, has_key |-> TRUE, compressed_messages |-> messages]
  ELSE IF outcome = SummaryFailed
    THEN [raised |-> TRUE, has_key |-> FALSE, compressed_messages |-> <<>>]
  ELSE IF outcome = SummaryMalformed
    THEN [raised |-> FALSE, has_key |-> FALSE, compressed_messages |-> <<>>]
  ELSE [raised |-> FALSE, has_key |-> TRUE,
        compressed_messages |-> <<Message("user", outcome.text)>> \o LastN(messages, keep_recent)]

RECURSIVE NewContents(_)
\* the transcript rebuilt from compressed_messages (172-181)
NewContents(msgs) ==
  IF msgs = <<>> THEN <<>>
  ELSE LET msg == Head(msgs)
           role == IF msg.role \in {"assistant", "model"} THEN "model" ELSE "user"
       IN (IF msg.role # "system" /\ msg.content # <<>>
             THEN <<Content(role, <<TextPart(msg.content)>>)>>
             ELSE <<>>) \o NewContents(Tail(msgs))

AfterCompressionAlways(cs, result) == NewContents(result.compressed_messages)

\* the transcript after the compression attempt: replaced only when the call
\* returned and its result holds "compressed_messages" (164-187)
AfterCompression(cs, result) ==
  IF ~result.raised /\ result.has_key
    THEN NewContents(result.compressed_messages)
    ELSE cs

\* what the token management prints when the compression is triggered: the
\* announcement (153) and, once the transcript is replaced, the success line
\* (183); the except clause prints nothing (185-187)
CompressionLines(result) ==
  <<"Compressing context...">>
  \o (IF ~result.raised /\ result.has_key THEN <<"Context compressed.">> ELSE <<>>)

----------------------------------------------------------------------------
\* Tool dispatch (kimi-writer.py 235-269)

FunctionCall(n, a) == [name |-> n, args |-> a]

Keys(args) == {args[i][1] : i \in 1..Len(args)}

\* tool_func(**args) binds its arguments only when they are the handler's
\* parameters; otherwise the call raises TypeError
HandlerAccepts(fc) == Keys(fc.args) = Params(fc.name)

Flavours == {"ok", "err"}

\* a handler returns a string, a success message or a descriptive error
HandlerReturn(n, flavour) ==
  IF flavour = "ok" THEN <<"Success: ", n>> ELSE <<"Error: ", n, " failed">>

UnknownToolResult(func_name) == <<"Error: Unknown tool", " ", "'", func_name, "'">>

CompressToolResult == <<"Context compression managed by system.">>

\* whether the call reaches a handler whose answer the environment decides
UsesFlavour(fc) ==
  fc.name \in tool_map /\ fc.name # "compress_context" /\ HandlerAccepts(fc)

\* compress_context dispatched to its handler like any other tool
ToolResultCompressInvoked(fc, flavour) ==
  IF fc.name \notin tool_map
    THEN [raised |-> FALSE, invoked |-> FALSE, result |-> UnknownToolResult(fc.name)]
  ELSE IF ~HandlerAccepts(fc)
    THEN [raised |-> TRUE, invoked |-> TRUE, result |-> <<>>]
  ELSE [raised |-> FALSE, invoked |-> TRUE, result |-> HandlerReturn(fc.name, flavour)]

\* tool_map[func_name] in place of tool_map.get(func_name): an unknown name raises
ToolResultKeyError(fc, flavour) ==
  IF fc.name \notin tool_map
    THEN [raised |-> TRUE, invoked |-> FALSE, result |-> <<>>]
  ELSE IF fc.name = "compress_context"
    THEN [raised |-> FALSE, invoked |-> FALSE, result |-> CompressToolResult]
  ELSE IF ~HandlerAccepts(fc)
    THEN [raised |-> TRUE, invoked |-> TRUE, result |-> <<>>]
  ELSE [raised |-> FALSE, invoked |-> TRUE, result |-> HandlerReturn(fc.name, flavour)]

\* the body of the dispatch loop for one call (241-252): the result string, or
\* the exception of the handler
ToolResult(fc, flavour) ==
  IF fc.name \notin tool_map
    THEN [raised |-> FALSE, invoked |-> FALSE, result |-> UnknownToolResult(fc.name)]
  ELSE IF fc.name = "compress_context"
    THEN [raised |-> FALSE, invoked |-> FALSE, result |-> CompressToolResult]
  ELSE IF ~HandlerAccepts(fc)
    THEN [raised |-> TRUE, invoked |-> TRUE, result |-> <<>>]
  ELSE [raised |-> FALSE, invoked |-> TRUE, result |-> HandlerReturn(fc.name, flavour)]

RECURSIVE DispatchSkipUnknown(_, _, _)
DispatchSkipUnknown(calls, pick, i) ==
  IF i > Len(calls) THEN [raised |-> FALSE, parts |-> <<>>, invoked |-> <<>>]
  ELSE LET fc == calls[i]
           r == ToolResult(fc, pick[i])
       IN IF r.raised
            THEN [raised |-> TRUE, parts |-> <<>>, invoked |-> <<fc.name>>]
            ELSE LET rest == DispatchSkipUnknown(calls, pick, i + 1)
                 IN [raised |-> rest.raised,
                     parts |-> (IF fc.name \in tool_map
                                  THEN <<FunctionResponsePart(fc.name, r.result)>>
                                  ELSE <<>>) \o rest.parts,
                     invoked |-> (IF r.invoked THEN <<fc.name>> ELSE <<>>) \o rest.invoked]

RECURSIVE DispatchReversed(_, _, _)
\* the calls taken from the last to the first
DispatchReversed(calls, pick, i) ==
  IF i > Len(calls) THEN [raised |-> FALSE, parts |-> <<>>, invoked |-> <<>>]
  ELSE LET k == Len(calls) + 1 - i
           fc == calls[k]
           r == ToolResult(fc, pick[k])
       IN IF r.raised
            THEN [raised |-> TRUE, parts |-> <<>>, invoked |-> <<fc.name>>]
            ELSE LET rest == DispatchReversed(calls, pick, i + 1)
                 IN [raised |-> rest.raised,
                     parts |-> <<FunctionResponsePart(fc.name, r.result)>> \o rest.parts,
                     invoked |-> (IF r.invoked THEN <<fc.name>> ELSE <<>>) \o rest.invoked]

RECURSIVE Dispatch(_, _, _)
\* for fc in function_calls_list (240-264), from call i on: the response parts
\* built, the handlers invoked, and whether a handler raised
Dispatch(calls, pick, i) ==
  IF i > Len(calls) THEN [raised |-> FALSE, parts |-> <<>>, invoked |-> <<>>]
  ELSE LET fc == calls[i]
           r == ToolResult(fc, pick[i])
       IN IF r.raised
            THEN [raised |-> TRUE, parts |-> <<>>, invoked |-> <<fc.name>>]
            ELSE LET rest == Dispatch(calls, pick, i + 1)
                 IN [raised |-> rest.raised,
                     parts |-> <<FunctionResponsePart(fc.name, r.result)>> \o rest.parts,
                     invoked |-> (IF r.invoked THEN <<fc.name>> ELSE <<>>) \o rest.invoked]

\* the answers the handlers of one turn may give
Picks(calls) ==
  {p \in [1..Len(calls) -> Flavours] :
     \A i \in 1..Len(calls) : ~UsesFlavour(calls[i]) => p[i] = "ok"}

RECURSIVE FunctionCallsList(_)
\* function_calls_list of a response (214-222)
FunctionCallsList(ps) ==
  IF ps = <<>> THEN <<>>
  ELSE (IF HasFunctionCall(Head(ps))
          THEN <<FunctionCall(Head(ps).name, Head(ps).args)>>
          ELSE <<>>) \o FunctionCallsList(Tail(ps))

----------------------------------------------------------------------------
\* The environment: the prompt, the model's responses, the user's input

\* os.getenv("GEMINI_API_KEY"): unset (None), set to "", or set to a key
ApiKeys ==
  { [present |-> FALSE, value |-> <<>>],
    [present |-> TRUE, value |-> <<>>],
    [present |-> TRUE, value |-> <<"secret">>] }

\* not api_key (109)
Falsy(api_key) == ~api_key.present \/ api_key.value = <<>>

\* parser.parse_args(): --recover and the positional prompt, <<>> when absent
\* or empty
Argvs ==
  { [recover |-> r, prompt |-> p] :
      r \in {<<>>, <<"summary.md">>},
      p \in {<<>>, <<"A ghost story set in a library">>} }

Envs == { [api_key |-> k, args |-> a] : k \in ApiKeys, a \in Argvs }

\* what reading the summary file may give: its content, or an exception
FileOutcomes ==
  { [ok |-> TRUE, content |-> <<"Chapter 1 drafted, 4200 words">>],
    [ok |-> FALSE, content |-> <<>>] }

\* the lines the user may type at the first prompt
StartLines ==
  { <<>>, <<" ">>, <<"q">>, <<"Q">>, <<"QUIT">>, <<" ", "Exit", " ">>,
    <<" ", "A ghost story set in a library", " ">> }

\* what input("> ") may do
StartInputOutcomes ==
  { [kind |-> "line", line |-> l] : l \in StartLines }
  \cup { [kind |-> "eof", line |-> <<>>], [kind |-> "interrupt", line |-> <<>>] }

IsGoodbyeCaseSensitive(prompt) == prompt \in {<<"quit">>, <<"exit">>, <<"q">>}

\* prompt.lower() in ['quit', 'exit', 'q'] (95)
IsGoodbye(prompt) == Lower(prompt) \in {<<"quit">>, <<"exit">>, <<"q">>}

Returned(user_prompt, is_recovery, line) ==
  [kind |-> "return", how |-> "-", user_prompt |-> user_prompt,
   is_recovery |-> is_recovery, input |-> line]

Exited(how, line) ==
  [kind |-> "exit", how |-> how, user_prompt |-> <<>>,
   is_recovery |-> FALSE, input |-> line]

\* load_context_from_file(file_path) (37-48)
load_context_from_file(file) ==
  IF file.ok THEN Returned(file.content, TRUE, <<>>) ELSE Exited("load failed", <<>>)

\* get_user_input() (51-103): (user_prompt, is_recovery), or the exit taken
get_user_input(args, file, inp) ==
  IF args.recover # <<>> THEN load_context_from_file(file)
  ELSE IF args.prompt # <<>> THEN Returned(args.prompt, FALSE, <<>>)
  ELSE IF inp.kind = "interrupt" THEN Exited("uncaught interrupt", <<>>)
  ELSE IF inp.kind = "eof" THEN Exited("uncaught eof", <<>>)
  ELSE LET prompt == Strip(inp.line)
       IN IF IsGoodbye(prompt) THEN Exited("goodbye", inp.line)
          ELSE IF prompt = <<>> THEN Exited("empty prompt", inp.line)
          ELSE Returned(prompt, FALSE, inp.line)

\* the (user_prompt, is_recovery) pairs get_user_input can return
Starts ==
  { [user_prompt |-> g.user_prompt, is_recovery |-> g.is_recovery] :
      g \in { h \in { get_user_input(a, f, i) :
                        a \in Argvs, f \in FileOutcomes, i \in StartInputOutcomes } :
                h.kind = "return" } }

\* the exit status of the process: the argument of sys.exit, 0 when main
\* returns after the loop, 1 for an uncaught exception
ExitCode(how) ==
  CASE how \in {"no key", "load failed", "empty prompt"} -> 1
    [] how \in {"uncaught interrupt", "uncaught eof"} -> 1
    [] how \in {"goodbye", "interrupt"} -> 0
    [] how \in {"cap", "quit", "error"} -> 0

\* the recovered text taken as it is, without the markers
InitialMessageUnwrapped(st) == st.user_prompt

\* the first message of the transcript (122-126)
InitialMessage(st) ==
  IF st.is_recovery
    THEN <<"[RECOVERED CONTEXT]", "\n\n">> \o st.user_prompt
         \o <<"\n\n", "[END RECOVERED CONTEXT]", "\n\n",
              "Please continue the work from where we left off.">>
    ELSE st.user_prompt

GoodProject == << <<"project_name", <<"tale">> >> >>

GoodWrite ==
  << <<"filename", <<"story.md">> >>, <<"content", <<"Once">> >>, <<"mode", <<"create">> >> >>

\* the content of a model response: none, text, or tool calls (0, 1, 2 and 3)
ModelContents ==
  { None,
    Content("model", <<TextPart(<<"The end.">>)>>),
    Content("model", <<FunctionCallPart("write_file", GoodWrite)>>),
    Content("model", <<FunctionCallPart("teleport", NoArgs)>>),
    Content("model", <<TextPart(<<"Setting up.">>),
                       FunctionCallPart("create_project", GoodProject),
                       FunctionCallPart("teleport", NoArgs),
                       FunctionCallPart("compress_context", NoArgs)>>),
    Content("model", <<FunctionCallPart("create_project", NoArgs),
                       FunctionCallPart("write_file", GoodWrite)>>),
    Content("model", <<FunctionCallPart("write_file", GoodWrite),
                       FunctionCallPart("create_project", GoodProject)>>) }

\* what client.models.generate_content may do
GenerateOutcomes ==
  { [kind |-> "response", content |-> c] : c \in ModelContents }
  \cup { [kind |-> "error", content |-> None],
         [kind |-> "interrupt", content |-> None] }

\* the lines the user may type at the pause
Lines ==
  { <<>>, <<" ">>, <<"q">>, <<"Quit", " ">>, <<" ", "exit">>,
    <<" ", "Go on", " ">>, <<BLOCK>> }

\* what input() may do: return a line, or raise EOFError or KeyboardInterrupt
InputOutcomes ==
  { [kind |-> "line", line |-> l] : l \in Lines }
  \cup { [kind |-> "eof", line |-> <<>>], [kind |-> "interrupt", line |-> <<>>] }

\* new_prompt.lower() in ['q', 'quit', 'exit']
IsQuit(new_prompt) == Lower(new_prompt) \in {<<"q">>, <<"quit">>, <<"exit">>}

HasToolCallsSeveral(function_calls_list) == Len(function_calls_list) > 1

\* if function_calls_list:
HasToolCalls(function_calls_list) == function_calls_list # <<>>

UserTurnAsModel(new_prompt) == Content("model", <<TextPart(new_prompt)>>)

\* types.Content(role="user", parts=[types.Part.from_text(text=new_prompt)])
UserTurn(new_prompt) == Content("user", <<TextPart(new_prompt)>>)

LoopContinuesShort(i) == i < MAX_ITERATIONS - 1

\* for iteration in range(1, MAX_ITERATIONS + 1): whether another iteration follows
LoopContinues(i) == i < MAX_ITERATIONS

----------------------------------------------------------------------------
\* The state machine

\* the model turn put in front of the transcript
InsertModelContent(cs, model_content) ==
  IF model_content # None THEN <<model_content>> \o cs ELSE cs

\* if model_content: contents.append(model_content)
AppendModelContent(cs, model_content) ==
  IF model_content # None THEN Append(cs, model_content) ELSE cs

\* what the last step did
NoEv ==
  [op |-> "start", counted |-> "-", token_count |-> 0, compaction |-> "-",
   requested |-> FALSE, outcome |-> "-", calls |-> <<>>, invoked |-> <<>>,
   input |-> <<>>, pending |-> <<>>, printed |-> <<>>]

Init ==
  /\ env \in Envs
  /\ contents = <<>>
  /\ iteration = 1
  /\ pc = "start"
  /\ exit = "-"
  /\ genCalls = 0
  /\ plain = TRUE
  /\ ev = NoEv

\* the end of an iteration body that did not break
NextIteration ==
  IF LoopContinues(iteration)
    THEN /\ iteration' = iteration + 1
         /\ pc' = "token"
         /\ exit' = exit
    ELSE /\ iteration' = iteration
         /\ pc' = "done"
         /\ exit' = "cap"

Stop(how) ==
  /\ pc' = "done"
  /\ exit' = how
  /\ iteration' = iteration

OnKeyboardInterruptContinue ==
  /\ pc' = "token"
  /\ exit' = exit
  /\ iteration' = iteration

\* except KeyboardInterrupt: print("\nSaved & Exiting."); sys.exit(0) (286-288)
OnKeyboardInterrupt == Stop("interrupt")

\* except Exception as e: print(f"Error: {e}"); break (289-291)
OnException == Stop("error")

\* The entry of main (106-132): the credential check, get_user_input and the
\* seeding of the transcript.
Startup ==
  /\ pc = "start"
  /\ UNCHANGED <<env, iteration, genCalls>>
  /\ IF Falsy(env.api_key)
       THEN /\ pc' = "done" /\ exit' = "no key"
            /\ UNCHANGED contents
            /\ plain' = FALSE
            /\ ev' = [NoEv EXCEPT !.op = "startup", !.outcome = "no key",
                                  !.printed = <<"Error: GEMINI_API_KEY environment variable not set.">>]
       ELSE \E file \in FileOutcomes, inp \in StartInputOutcomes :
              LET g == get_user_input(env.args, file, inp)
              IN IF g.kind = "return"
                   THEN /\ contents' = <<UserTurn(InitialMessage(g))>>
                        /\ pc' = "token"
                        /\ UNCHANGED <<exit, plain>>
                        /\ ev' = [NoEv EXCEPT !.op = "startup", !.outcome = "seeded",
                                              !.input = g.input]
                   ELSE /\ pc' = "done" /\ exit' = g.how
                        /\ UNCHANGED contents
                        /\ plain' = FALSE
                        /\ ev' = [NoEv EXCEPT !.op = "startup", !.outcome = g.how,
                                              !.input = g.input]

\* Token management (147-187): the estimate, and the compression when the
\* estimate reaches the threshold.  Any Exception is swallowed; a
\* KeyboardInterrupt is not caught here and ends the process.
TokenCheck ==
  /\ pc = "token"
  /\ UNCHANGED <<env, genCalls>>
  /\ \/ /\ Stop("uncaught interrupt")
        /\ UNCHANGED contents
        /\ plain' = FALSE
        /\ ev' = [NoEv EXCEPT !.op = "token", !.compaction = "interrupt"]
     \/ \E reply \in CountOutcomes :
          LET token_count == estimate_token_count(contents, reply)
              counted == IF reply.failed THEN "fallback" ELSE "api"
              messages == CompressorInput(contents)
              base == [NoEv EXCEPT !.op = "token", !.counted = counted,
                                   !.token_count = token_count, !.pending = ev.pending]
          IN IF ~ShouldCompress(token_count)
               THEN /\ UNCHANGED <<contents, iteration, exit, plain>>
                    /\ pc' = "generate"
                    /\ ev' = [base EXCEPT !.compaction = "not triggered"]
               ELSE \E outcome \in (IF NeedsSummary(messages, KEEP_RECENT)
                                      THEN SummaryOutcomes ELSE {NoRequest}) :
                      LET result == compress_context_impl(messages, KEEP_RECENT, outcome)
                      IN /\ contents' = AfterCompression(contents, result)
                         /\ UNCHANGED <<iteration, exit, plain>>
                         /\ pc' = "generate"
                         /\ ev' = [base EXCEPT
                                     !.printed = CompressionLines(result),
                                     !.requested = NeedsSummary(messages, KEEP_RECENT),
                                     !.compaction =
                                       IF result.raised THEN "raised"
                                       ELSE IF ~result.has_key THEN "no key"
                                       ELSE "replaced"]

\* Call Model (196-269, 286-291): one generate call, the model turn appended,
\* and either the tool calls dispatched and answered or the pause entered.
CallModel ==
  /\ pc = "generate"
  /\ UNCHANGED env
  /\ genCalls' = genCalls + 1
  /\ \E out \in GenerateOutcomes :
       IF out.kind = "interrupt"
         THEN /\ OnKeyboardInterrupt
              /\ UNCHANGED contents
              /\ plain' = FALSE
              /\ ev' = [NoEv EXCEPT !.op = "generate", !.outcome = "interrupt",
                                    !.printed = <<"Saved & Exiting.">>]
       ELSE IF out.kind = "error"
         THEN /\ OnException
              /\ UNCHANGED contents
              /\ plain' = FALSE
              /\ ev' = [NoEv EXCEPT !.op = "generate", !.outcome = "error",
                                    !.printed = <<"Error: ">>]
       ELSE
         LET model_content == out.content
             function_calls_list ==
               IF model_content = None THEN <<>>
               ELSE FunctionCallsList(model_content.parts)
             saved == AppendModelContent(contents, model_content)
             base == [NoEv EXCEPT !.op = "generate", !.calls = function_calls_list]
         IN IF HasToolCalls(function_calls_list)
              THEN \E pick \in Picks(function_calls_list) :
                     LET d == Dispatch(function_calls_list, pick, 1)
                     IN /\ plain' = FALSE
                        /\ IF d.raised
                             THEN /\ contents' = saved
                                  /\ OnException
                                  /\ ev' = [base EXCEPT !.outcome = "handler raised",
                                                        !.invoked = d.invoked,
                                                        !.printed = <<"Error: ">>]
                             ELSE /\ contents' = Append(saved, Content("user", d.parts))
                                  /\ NextIteration
                                  /\ ev' = [base EXCEPT !.outcome = "answered",
                                                        !.invoked = d.invoked]
              ELSE /\ contents' = saved
                   /\ pc' = "pause"
                   /\ UNCHANGED <<iteration, exit, plain>>
                   /\ ev' = [base EXCEPT !.outcome = "paused"]

\* The pause (276-284): one line read; a quit word breaks the loop, anything
\* else becomes a user turn.
ReadInput ==
  /\ pc = "pause"
  /\ UNCHANGED <<env, genCalls>>
  /\ \E inp \in InputOutcomes :
       IF inp.kind = "interrupt"
         THEN /\ OnKeyboardInterrupt
              /\ UNCHANGED contents
              /\ plain' = FALSE
              /\ ev' = [NoEv EXCEPT !.op = "input", !.outcome = "interrupt",
                                    !.printed = <<"Saved & Exiting.">>]
       ELSE IF inp.kind = "eof"
         THEN /\ OnException
              /\ UNCHANGED contents
              /\ plain' = FALSE
              /\ ev' = [NoEv EXCEPT !.op = "input", !.outcome = "error",
                                    !.printed = <<"Error: ">>]
       ELSE
         LET new_prompt == Strip(inp.line)
         IN IF IsQuit(new_prompt)
              THEN /\ Stop("quit")
                   /\ UNCHANGED contents
                   /\ plain' = FALSE
                   /\ ev' = [NoEv EXCEPT !.op = "input", !.outcome = "quit",
                                         !.input = inp.line]
              ELSE /\ contents' = Append(contents, UserTurn(new_prompt))
                   /\ NextIteration
                   /\ UNCHANGED plain
                   /\ ev' = [NoEv EXCEPT !.op = "input", !.outcome = "accepted",
                                         !.input = inp.line, !.pending = <<new_prompt>>]

Next == Startup \/ TokenCheck \/ CallModel \/ ReadInput

Spec == Init /\ [][Next]_vars

\* every call returns: a step that can be taken is taken
LiveSpec == Spec /\ WF_vars(Next)

----------------------------------------------------------------------------
\* Properties

Last(s) == s[Len(s)]

RECURSIVE Names(_)
Names(xs) == IF xs = <<>> THEN <<>> ELSE <<Head(xs).name>> \o Names(Tail(xs))

\* turn i of cs holds tool calls, and turn i+1 answers them one for one
AnsweredAt(cs, i) ==
  LET calls == FunctionCallsList(cs[i].parts)
  IN calls # <<>> =>
       /\ i < Len(cs)
       /\ cs[i + 1].role = "user"
       /\ Len(cs[i + 1].parts) = Len(calls)
       /\ \A j \in 1..Len(calls) : cs[i + 1].parts[j].kind = "function_response"
       /\ Names(cs[i + 1].parts) = Names(calls)

\* C1: whenever a generate call is about to be issued, every model turn with
\* tool calls is followed at once by a turn of as many tool results, naming
\* the same tools in the same order.
C1_ToolCallsAnswered ==
  pc = "generate" => \A i \in 1..Len(contents) : AnsweredAt(contents, i)

\* a generate call is due on a transcript that holds an answered turn of three
\* calls and an answered turn of one call
C1_Witness ==
  /\ pc = "generate"
  /\ \E i, j \in 1..Len(contents) :
       /\ Len(FunctionCallsList(contents[i].parts)) = 3
       /\ Len(FunctionCallsList(contents[j].parts)) = 1
       /\ AnsweredAt(contents, i) /\ AnsweredAt(contents, j)

\* C2: a response without tool calls leads to the pause and nowhere else; at
\* the pause the only step is the read of the input, with no model call; and
\* input is read only after a response without tool calls, a response with
\* tool calls being dispatched without a pause.
C2_PausePoint ==
  [][ /\ (pc = "generate" /\ ev'.outcome \notin {"error", "interrupt"})
           => (pc' = "pause" <=> ev'.calls = <<>>)
      /\ pc = "pause"
           => (ev'.op = "input" /\ genCalls' = genCalls
               /\ ev.op = "generate" /\ ev.calls = <<>>)
      /\ ev'.op = "input" => pc = "pause"
      /\ (pc = "generate" /\ ev'.calls # <<>>)
           => ev'.outcome \in {"answered", "handler raised"} ]_vars

\* an input was read at the pause and the loop went on
C2_Witness == ev.op = "input" /\ ev.outcome = "accepted" /\ pc = "token"

\* a quit signal, as the claims state it
QuitSignal(s) == Lower(s) \in {<<"q">>, <<"quit">>, <<"exit">>}

\* C3: at the pause an empty input or a quit signal ends the session, and no
\* turn is appended for it.
C3_EmptyOrQuitTerminates ==
  [][ (pc = "pause" /\ ev'.outcome \in {"quit", "accepted"}
       /\ (Strip(ev'.input) = <<>> \/ QuitSignal(Strip(ev'.input))))
        => (pc' = "done" /\ exit' = "quit" /\ contents' = contents) ]_vars

\* C4: an input that is neither empty nor a quit signal is appended as one
\* user turn holding the input as its single text, the loop runs on (or ends
\* at the cap), and the next generate call is made on a transcript that ends
\* with that turn.
C4_InputBecomesUserTurn ==
  /\ [][ (pc = "pause" /\ ev'.outcome \in {"quit", "accepted"}
          /\ Strip(ev'.input) # <<>> /\ ~QuitSignal(Strip(ev'.input)))
           => /\ ev'.outcome = "accepted"
              /\ contents' = Append(contents,
                                    Content("user", <<TextPart(Strip(ev'.input))>>))
              /\ (pc' = "token" \/ (pc' = "done" /\ exit' = "cap")) ]_vars
  /\ []((pc = "generate" /\ ev.pending # <<>> /\ ev.pending[1] # <<>>)
          => /\ contents # <<>>
             /\ Last(contents) = Content("user", <<TextPart(ev.pending[1])>>))

\* a generate call is due on a transcript that was compacted after the input
\* was accepted
C4_Witness ==
  /\ pc = "generate"
  /\ ev.pending = << <<"Go on">> >>
  /\ ev.compaction = "replaced"
  /\ ev.requested

\* C5: a session makes at most MAX_ITERATIONS generate calls and ends; with a
\* model that never calls a tool and a user who never quits it ends by the
\* cap, in iteration MAX_ITERATIONS, after exactly MAX_ITERATIONS generate calls.
C5_IterationCap ==
  /\ [](/\ genCalls <= MAX_ITERATIONS
        /\ iteration \in 1..MAX_ITERATIONS
        /\ (pc = "done" /\ plain)
             => (exit = "cap" /\ iteration = MAX_ITERATIONS
                 /\ genCalls = MAX_ITERATIONS))
  /\ <>(pc = "done")

\* the session of the scenario has ended at the cap
C5_Witness == pc = "done" /\ plain /\ exit = "cap" /\ genCalls = MAX_ITERATIONS

\* the registered handler rejects the arguments of the call
Rejected(fc) ==
  fc.name \in tool_map /\ fc.name # "compress_context" /\ Keys(fc.args) # Params(fc.name)

Unknown(fc) == fc.name \notin tool_map

InSeq(x, xs) == \E i \in 1..Len(xs) : xs[i] = x

\* C6: a call of a tool that is not in the tool map invokes no handler and
\* does not end the session: it is answered in the tool-result turn of the
\* same iteration with "Error: Unknown tool ...", and the loop goes on to the
\* next iteration (or ends at the cap).
C6_UnknownTool ==
  (ev.op = "generate" /\ \E i \in 1..Len(ev.calls) : Unknown(ev.calls[i]))
    => /\ \A i \in 1..Len(ev.calls) :
            Unknown(ev.calls[i]) => ~InSeq(ev.calls[i].name, ev.invoked)
       /\ (\A i \in 1..Len(ev.calls) : ~Rejected(ev.calls[i]))
            => ev.outcome = "answered"
       /\ ev.outcome = "answered"
            => /\ pc = "token" \/ (pc = "done" /\ exit = "cap")
               /\ Last(contents).role = "user"
               /\ Len(Last(contents).parts) = Len(ev.calls)
               /\ \A i \in 1..Len(ev.calls) :
                    Unknown(ev.calls[i])
                      => /\ Last(contents).parts[i].kind = "function_response"
                         /\ Last(contents).parts[i].name = ev.calls[i].name
                         /\ StartsWith(Last(contents).parts[i].result,
                                       <<"Error: Unknown tool">>)

\* a turn calling "teleport" was answered and the loop went on
C6_Witness ==
  /\ ev.op = "generate" /\ ev.outcome = "answered" /\ pc = "token"
  /\ \E i \in 1..Len(ev.calls) : ev.calls[i].name = "teleport"

\* C7: a tool call whose arguments the handler rejects does not end the
\* session: every call of the turn is answered in the same iteration and the
\* loop goes on.
C7_BadArgumentHandledLocally ==
  (ev.op = "generate" /\ \E i \in 1..Len(ev.calls) : Rejected(ev.calls[i]))
    => /\ exit # "error"
       /\ ev.outcome = "answered"
       /\ Last(contents).role = "user"
       /\ Len(Last(contents).parts) = Len(ev.calls)

\* C8: a compression that fails leaves the transcript as it was, does not end
\* the session, and the generate call of the iteration follows.
C8_FailedCompactionKeepsTranscript ==
  [][ /\ (pc = "token" /\ ev'.compaction \in {"raised", "no key"})
           => /\ contents' = contents
              /\ pc' = "generate" /\ exit' = exit /\ iteration' = iteration
      /\ pc = "generate"
           => (ev'.op = "generate" /\ genCalls' = genCalls + 1) ]_vars

\* the summarization request failed and the generate call is due
C8_Witness ==
  pc = "generate" /\ ev.requested /\ ev.compaction = "raised" /\ exit = "-"

\* C9: a compaction that replaces the transcript by a summary and the recent
\* turns makes its estimate strictly smaller (a result that is not smaller
\* being dropped, so that the transcript is then not replaced).
C9_CompactionShrinks ==
  [][ (pc = "token" /\ ev'.compaction = "replaced" /\ ev'.requested
       /\ contents' # contents)
        => FallbackEstimate(contents') < FallbackEstimate(contents) ]_vars

Min(a, b) == IF a <= b THEN a ELSE b

\* C10: the most recent keep_recent turns before a compaction are the last
\* turns after it, segment for segment.
C10_RecentTurnsSurvive ==
  [][ (pc = "token" /\ ev'.compaction = "replaced" /\ ev'.requested)
        => LET k == Min(KEEP_RECENT, Len(contents))
           IN /\ Len(contents') >= k
              /\ LastN(contents', k) = LastN(contents, k) ]_vars

\* the parts of every turn carry their content: no empty text
NoEmptyText(cs) ==
  \A i \in 1..Len(cs) : \A j \in 1..Len(cs[i].parts) :
    cs[i].parts[j].kind = "text" => cs[i].parts[j].text # <<>>

\* the compression was triggered and the compressor called
Triggered(e) == e.op = "token" /\ e.compaction \in {"raised", "no key", "replaced"}

\* C11: a compaction triggered on a transcript of at most keep_recent turns
\* (the system message counted with them) leaves the transcript as it was,
\* tool-call and tool-result turns included, and issues no summarization
\* request.
C11_ShortTranscriptNoOp ==
  [][ (pc = "token" /\ Triggered(ev')
       /\ Len(contents) <= KEEP_RECENT
       /\ Len(CompressorInput(contents)) <= KEEP_RECENT
       /\ NoEmptyText(contents))
        => (contents' = contents /\ ~ev'.requested) ]_vars

RECURSIVE SegmentChars(_)
\* the characters of the Text and ToolResult segments of one turn
SegmentChars(ps) ==
  IF ps = <<>> THEN 0
  ELSE (IF Head(ps).kind = "text" THEN StrLen(Head(ps).text)
        ELSE IF Head(ps).kind = "function_response" THEN StrLen(Head(ps).result)
        ELSE 0) + SegmentChars(Tail(ps))

RECURSIVE TranscriptChars(_)
\* S: the characters of every Text and every ToolResult segment
TranscriptChars(cs) ==
  IF cs = <<>> THEN 0 ELSE SegmentChars(Head(cs).parts) + TranscriptChars(Tail(cs))

\* C12: when the counting call fails the estimate is floor(S / 4), S the
\* characters of every Text and every ToolResult segment of the transcript.
C12_FallbackCountsResults ==
  [][ (pc = "token" /\ ev'.op = "token" /\ ev'.counted = "fallback")
        => ev'.token_count = TranscriptChars(contents) \div 4 ]_vars

\* the transcript cut after turn k, and after segment j of turn k + 1
TurnPrefix(cs, k) == SubSeq(cs, 1, k)
SegmentPrefix(cs, k, j) ==
  Append(TurnPrefix(cs, k), Content(cs[k + 1].role, SubSeq(cs[k + 1].parts, 1, j)))

\* C13: the fallback estimate never decreases when segments or turns are
\* appended: along the transcript as it was built, every further segment and
\* every further turn leaves the estimate equal or larger.
C13_FallbackMonotonic ==
  \A k \in 0..(Len(contents) - 1) :
    /\ FallbackEstimate(TurnPrefix(contents, k)) <= FallbackEstimate(TurnPrefix(contents, k + 1))
    /\ \A j \in 0..(Len(contents[k + 1].parts) - 1) :
         FallbackEstimate(SegmentPrefix(contents, k, j))
           <= FallbackEstimate(SegmentPrefix(contents, k, j + 1))

\* a tool-result turn and a user turn were appended after the first turn, and
\* the estimate grew on the way
C13_Witness ==
  /\ Len(contents) >= 4
  /\ ev.op = "input" /\ ev.outcome = "accepted"
  /\ \E k \in 1..(Len(contents) - 1) :
       /\ \E j \in 1..Len(contents[k].parts) : HasFunctionCall(contents[k].parts[j])
       /\ FallbackEstimate(TurnPrefix(contents, k)) = FallbackEstimate(TurnPrefix(contents, k - 1))
  /\ FallbackEstimate(contents) > FallbackEstimate(TurnPrefix(contents, Len(contents) - 1))

\* C14: a failed count_tokens call neither ends the session nor skips the
\* turn: the estimate is the fallback value, the compression decision of the
\* iteration is taken on it, and the next step is the generate call of the
\* same iteration.
C14_CountFailureFallsBack ==
  [][ /\ (pc = "token" /\ ev'.op = "token" /\ ev'.counted = "fallback")
         => /\ ev'.token_count = FallbackEstimate(contents)
            /\ ev'.token_count \in Nat
            /\ Triggered(ev') <=> (FallbackEstimate(contents) >= COMPRESSION_THRESHOLD)
            /\ pc' = "generate" /\ exit' = exit /\ iteration' = iteration
      /\ (pc = "generate" /\ ev.op = "token" /\ ev.counted = "fallback")
         => /\ ev'.op = "generate"
            /\ genCalls' = genCalls + 1 ]_vars

\* the count failed on a transcript holding a long passage: the fallback
\* value reached the threshold, compaction ran, and the generate call is next
C14_Witness ==
  /\ pc = "generate"
  /\ ev.op = "token" /\ ev.counted = "fallback"
  /\ ev.token_count >= COMPRESSION_THRESHOLD
  /\ ev.compaction = "replaced"

\* C15: the compactor is invoked in an iteration iff the estimate of that
\* iteration is at or above COMPRESSION_THRESHOLD (900000, below TOKEN_LIMIT):
\* 950000 triggers it, 899999 does not, and an untriggered iteration reaches
\* the model call with the transcript unchanged.
C15_TriggerAtThreshold ==
  [][ (pc = "token" /\ ev'.op = "token" /\ ev'.compaction # "interrupt")
        => /\ COMPRESSION_THRESHOLD = 900000 /\ TOKEN_LIMIT = 1000000
           /\ COMPRESSION_THRESHOLD < TOKEN_LIMIT
           /\ Triggered(ev') <=> (ev'.token_count >= COMPRESSION_THRESHOLD)
           /\ ev'.token_count = 950000 => Triggered(ev')
           /\ ev'.token_count = 899999 => ~Triggered(ev')
           /\ ~Triggered(ev') => (contents' = contents /\ pc' = "generate") ]_vars

\* an estimate of 950000 triggered a compaction that replaced the transcript
C15_Witness ==
  /\ ev.op = "token" /\ ev.counted = "api"
  /\ ev.token_count = 950000
  /\ ev.compaction = "replaced" /\ ev.requested

\* the lines the token management prints when all goes well
ProgressLines == {"Compressing context...", "Context compressed."}

\* some printed line of the step is not a progress line
Warned(e) == \E i \in 1..Len(e.printed) : e.printed[i] \notin ProgressLines

\* C16: after a triggered compaction the transcript the loop continues with
\* is estimated below the threshold, or a failure warning is printed; the
\* loop goes on to the generate call either way.
C16_BelowThresholdOrWarned ==
  [][ (pc = "token" /\ Triggered(ev'))
        => /\ pc' = "generate" /\ exit' = exit
           /\ (FallbackEstimate(contents') < COMPRESSION_THRESHOLD \/ Warned(ev')) ]_vars

\* C17: a failed compaction is not silent: it prints a warning or adds a turn
\* to the transcript before the loop continues.
C17_CompactionFailureSurfaced ==
  [][ (pc = "token" /\ ev'.op = "token" /\ ev'.compaction \in {"raised", "no key"})
        => (Warned(ev') \/ Len(contents') > Len(contents)) ]_vars

\* C18: a failed generate call (any Exception, a network timeout included) is
\* not retried within the iteration and does not by itself end the session:
\* after the first failure the loop goes on to the next iteration, whose
\* generate call retries the request.
C18_GenerateFailureRetriedNextIteration ==
  [][ (pc = "generate" /\ genCalls = 0 /\ ev'.op = "generate" /\ ev'.outcome = "error")
        => /\ genCalls' = genCalls + 1
           /\ pc' # "done"
           /\ contents' = contents ]_vars

\* the step was cut short by a KeyboardInterrupt
Interrupted(e) ==
  \/ e.op = "token" /\ e.compaction = "interrupt"
  \/ e.op \in {"generate", "input"} /\ e.outcome = "interrupt"

\* C19: an interrupt during the token management, during the generate call
\* or at the pause ends the session at once: the transcript is left as it
\* was, and from the terminated state no further step (count, summarization,
\* generate) is possible.
C19_InterruptTerminates ==
  /\ [][ (pc # "done" /\ Interrupted(ev'))
           => /\ pc' = "done"
              /\ exit' \in {"interrupt", "uncaught interrupt"}
              /\ contents' = contents
              /\ genCalls' = genCalls + (IF pc = "generate" THEN 1 ELSE 0) ]_vars
  /\ [](pc = "done" => ~ENABLED Next)

\* the session was interrupted at the pause of its second iteration, after a
\* tool call had been answered
C19_Witness ==
  /\ pc = "done" /\ exit = "interrupt"
  /\ ev.op = "input" /\ ev.outcome = "interrupt"
  /\ iteration = 2 /\ genCalls = 2
  /\ Len(contents) >= 4

RECURSIVE HandlersInOrder(_, _)
\* the handlers a turn of calls reaches, one after the other in call order,
\* up to and including the first that raises
HandlersInOrder(calls, i) ==
  IF i > Len(calls) THEN <<>>
  ELSE LET fc == calls[i]
       IN IF fc.name \notin tool_map \/ fc.name = "compress_context"
            THEN HandlersInOrder(calls, i + 1)
          ELSE IF ~HandlerAccepts(fc) THEN <<fc.name>>
          ELSE <<fc.name>> \o HandlersInOrder(calls, i + 1)

\* C20: the loop is strictly sequential.  Each step is one operation.  An
\* iteration starts with its token estimate, taken once: the token step goes
\* to the generate call of the same iteration with any compaction already
\* applied to the transcript, and a new token step comes only with the next
\* iteration.  The tools are dispatched within the step of the one generate
\* call, after its response, the handlers one at a time in call order, and
\* the tool-result turn is in the transcript when the next iteration starts.
C20_StrictlySequential ==
  [][ /\ pc = "token"
         => /\ ev'.op = "token"
            /\ genCalls' = genCalls /\ iteration' = iteration
            /\ pc' \in {"generate", "done"}
            /\ pc' = "generate" => ev'.compaction \in {"not triggered", "raised", "no key", "replaced"}
            /\ ev'.calls = <<>> /\ ev'.invoked = <<>>
      /\ pc = "generate"
         => /\ ev.op = "token" /\ ev'.op = "generate"
            /\ genCalls' = genCalls + 1
            /\ ev'.invoked = HandlersInOrder(ev'.calls, 1)
            /\ ev'.outcome = "answered"
                 => /\ Len(contents') = Len(contents) + 2
                    /\ SubSeq(contents', 1, Len(contents)) = contents
                    /\ FunctionCallsList(contents'[Len(contents) + 1].parts) = ev'.calls
                    /\ AnsweredAt(contents', Len(contents) + 1)
      /\ pc = "pause"
         => /\ ev.op = "generate" /\ ev'.op = "input"
            /\ genCalls' = genCalls
      /\ (pc # "start" /\ pc' = "token")
         => /\ iteration' = iteration + 1
            /\ ev'.op \in {"generate", "input"}
            /\ ev'.outcome \in {"answered", "accepted"}
      /\ pc = "start"
         => /\ ev'.op = "startup"
            /\ genCalls' = genCalls /\ iteration' = iteration
            /\ pc' \in {"token", "done"}
      /\ iteration' # iteration => pc' = "token" ]_vars

\* a response of two calls was answered in the first iteration, its handlers
\* run in call order; the second iteration is about to take its estimate
C20_Witness ==
  /\ pc = "token" /\ iteration = 2 /\ genCalls = 1
  /\ ev.op = "generate" /\ ev.outcome = "answered"
  /\ ev.invoked = <<"write_file", "create_project">>
  /\ Last(contents).role = "user"
  /\ Names(Last(contents).parts) = <<"write_file", "create_project">>

\* body stands in text after the atom open and before the atom close, and
\* the atom after stands behind close
Wrapped(text, open, body, close, after) ==
  \E i, j, k \in 1..Len(text) :
    /\ text[i] = open /\ text[j] = close /\ text[k] = after
    /\ j < k
    /\ \E a \in (i + 1)..(j - 1) :
         /\ a + Len(body) - 1 < j
         /\ SubSeq(text, a, a + Len(body) - 1) = body

\* cs is one user turn of one Text segment
OneUserText(cs) ==
  /\ Len(cs) = 1
  /\ cs[1].role = "user"
  /\ Len(cs[1].parts) = 1
  /\ cs[1].parts[1].kind = "text"

\* C21: the transcript is seeded with exactly one user turn of one Text
\* segment: in fresh mode the prompt (the argument, or the stripped line
\* typed), in recovery mode the summary of the file between the markers
\* [RECOVERED CONTEXT] and [END RECOVERED CONTEXT] followed by the
\* instruction to continue; and the first generate call is made on this
\* one-turn transcript, the token management of the first iteration leaving
\* it as it is.
C21_SeededTranscript ==
  /\ [][ /\ (pc = "start" /\ pc' = "token")
            => /\ OneUserText(contents')
               /\ LET text == contents'[1].parts[1].text
                  IN IF env.args.recover # <<>>
                       THEN \E f \in FileOutcomes :
                              /\ f.ok
                              /\ Wrapped(text, "[RECOVERED CONTEXT]", f.content,
                                         "[END RECOVERED CONTEXT]",
                                         "Please continue the work from where we left off.")
                       ELSE /\ text # <<>>
                            /\ text = (IF env.args.prompt # <<>>
                                         THEN env.args.prompt ELSE Strip(ev'.input))
         /\ (pc = "token" /\ genCalls = 0 /\ pc' = "generate")
            => contents' = contents ]_vars
  /\ []((genCalls = 0 /\ pc \in {"token", "generate"}) => OneUserText(contents))

\* the first generate call is due in recovery mode, on the one seeded turn,
\* after a token management that ran a compression
C21_Witness ==
  /\ pc = "generate" /\ genCalls = 0
  /\ env.args.recover # <<>>
  /\ OneUserText(contents)
  /\ Wrapped(contents[1].parts[1].text, "[RECOVERED CONTEXT]",
             <<"Chapter 1 drafted, 4200 words">>, "[END RECOVERED CONTEXT]",
             "Please continue the work from where we left off.")
  /\ ev.op = "token" /\ ev.compaction = "replaced"

\* the words that end the program at the first prompt
GoodbyeWords == {<<"quit">>, <<"exit">>, <<"q">>}

\* C22: without GEMINI_API_KEY the program exits with a non-zero status
\* whatever its arguments, before any prompt is read and with no call to the
\* backend; with the key and no prompt argument, a first line that is quit,
\* exit or q in any letter case exits with status 0, with no call to the
\* backend either.
C22_StartupExits ==
  /\ [][ pc = "start"
           => /\ Falsy(env.api_key)
                 => /\ pc' = "done" /\ exit' = "no key"
                    /\ ExitCode(exit') # 0
                    /\ ev'.input = <<>>
                    /\ contents' = <<>> /\ genCalls' = 0
              /\ (/\ ~Falsy(env.api_key)
                  /\ env.args.recover = <<>> /\ env.args.prompt = <<>>
                  /\ Lower(Strip(ev'.input)) \in GoodbyeWords)
                 => /\ pc' = "done" /\ exit' = "goodbye"
                    /\ ExitCode(exit') = 0
                    /\ contents' = <<>> /\ genCalls' = 0 ]_vars
  /\ []((pc = "done" /\ exit \in {"no key", "goodbye"})
          => (genCalls = 0 /\ ev.op = "startup" /\ ~ENABLED Next))

\* the user typed Exit, in capitals and between blanks, at the first prompt
C22_Witness ==
  /\ pc = "done" /\ exit = "goodbye"
  /\ ev.op = "startup" /\ ev.input = <<" ", "Exit", " ">>
  /\ ExitCode(exit) = 0
  /\ genCalls = 0 /\ contents = <<>>

\* C23: whenever a generate call is issued the transcript is non-empty and
\* its last turn has role user, also when the compaction step has just
\* replaced the transcript after a tool-dispatch iteration.
C23_LastTurnIsUser ==
  pc = "generate" => (contents # <<>> /\ Last(contents).role = "user")

\* cs is a prefix of ds
IsPrefix(cs, ds) == Len(cs) <= Len(ds) /\ SubSeq(ds, 1, Len(cs)) = cs

\* the turns ds has after those of cs
Appended(cs, ds) == SubSeq(ds, Len(cs) + 1, Len(ds))

\* C24: outside a compaction that replaces it, the transcript is append-only.
\* A token step that does not replace the transcript leaves it as it is; the
\* model step keeps every turn and appends at most the model turn and, when
\* tools were dispatched, one user-role turn of results after it; a failed
\* or interrupted generate call appends nothing; the pause keeps every turn
\* and appends at most one user turn, after a model step that appended no
\* user-role turn.
C24_AppendOnly ==
  [][ /\ (pc = "token" /\ ev'.compaction # "replaced") => contents' = contents
      /\ pc = "generate"
         => /\ IsPrefix(contents, contents')
            /\ LET new == Appended(contents, contents')
               IN /\ Len(new) <= 2
                  /\ Len(new) >= 1 => new[1].role = "model"
                  /\ Len(new) = 2 => (new[2].role = "user" /\ ev'.outcome = "answered")
                  /\ ev'.outcome \in {"error", "interrupt"} => new = <<>>
                  /\ ev'.outcome = "paused" => Len(new) <= 1
      /\ pc = "pause"
         => /\ ev.op = "generate" /\ ev.outcome = "paused"
            /\ IsPrefix(contents, contents')
            /\ LET new == Appended(contents, contents')
               IN /\ Len(new) <= 1
                  /\ Len(new) = 1 => new[1].role = "user"
      /\ pc = "done" => contents' = contents ]_vars

\* an iteration has appended a model turn of text and then the user's reply
\* to a transcript that already held an answered tool call
C24_Witness ==
  /\ ev.op = "input" /\ ev.outcome = "accepted"
  /\ Len(contents) = 5
  /\ contents[2].role = "model" /\ contents[3].role = "user"
  /\ contents[3].parts[1].kind = "function_response"
  /\ contents[4].role = "model" /\ contents[5].role = "user"

\* C25: a tool call named compress_context issued by the model does not
\* reach the compression handler, makes no summarization request and does
\* not compact the transcript; it is answered, at its place in the
\* tool-result turn, with "Context compression managed by system."; and a
\* compaction happens only in a token step whose estimate reached the
\* threshold.
C25_CompressCallIsInert ==
  [][ /\ (pc = "generate" /\ \E i \in 1..Len(ev'.calls) : ev'.calls[i].name = "compress_context")
         => /\ ~InSeq("compress_context", ev'.invoked)
            /\ ~ev'.requested /\ ev'.compaction = "-"
            /\ IsPrefix(contents, contents')
            /\ ev'.outcome = "answered"
                 => \A i \in 1..Len(ev'.calls) :
                      ev'.calls[i].name = "compress_context"
                        => Last(contents').parts[i] =
                             FunctionResponsePart("compress_context",
                                                  <<"Context compression managed by system.">>)
      /\ (ev'.requested \/ Triggered(ev'))
         => (pc = "token" /\ ev'.token_count >= COMPRESSION_THRESHOLD) ]_vars

\* the model's compress_context call was answered with the fixed result and
\* the next token step, below the threshold, left the transcript alone
C25_Witness ==
  /\ pc = "generate" /\ ev.op = "token" /\ ev.compaction = "not triggered"
  /\ Len(contents) >= 3
  /\ \E i \in 1..Len(Last(contents).parts) :
       Last(contents).parts[i] =
         FunctionResponsePart("compress_context", <<"Context compression managed by system.">>)

====
